---- MODULE Spec2Model ----
(***************************************************************************)
(* Model of minijinja/src/value/object.rs: the Object, SeqObject and       *)
(* StructObject capability traits, the SeqObjectIter iterator, the         *)
(* Arc<T> forwarding impls and the SimpleSeqObject / SimpleStructObject    *)
(* adapters.                                                               *)
(***************************************************************************)
EXTENDS Integers, Sequences, FiniteSets, TLC

(* ---------------------------------------------------------------------- *)
(* Bounds                                                                  *)
(* ---------------------------------------------------------------------- *)
\* longest sequence / largest item_count() enumerated
MaxLen == 3
\* most names an overridden fields() yields, largest overridden field_count()
MaxFields == 2
\* most calls a host object counts in its interior state
MaxHits == 2

(* ---------------------------------------------------------------------- *)
(* Values and options                                                      *)
(* ---------------------------------------------------------------------- *)
\* the defined values a host object hands out
Vals == {"a", "b"}
\* Value::UNDEFINED
UNDEFINED == "undefined"
Values == Vals \cup {UNDEFINED}

\* Option<T> is a sequence of at most one element
None == <<>>
Some(x) == <<x>>
OptVals == {None} \cup {Some(v) : v \in Vals}

\* Option::unwrap_or
unwrap_or(opt, dflt) == IF opt = None THEN dflt ELSE opt[1]

RECURSIVE Reverse(_)
Reverse(s) == IF s = <<>> THEN <<>> ELSE Append(Reverse(Tail(s)), Head(s))

\* all sequences over S of length 0..n
SeqsUpTo(S, n) == UNION {[1..k -> S] : k \in 0..n}

(* ---------------------------------------------------------------------- *)
(* SeqObject implementations                                               *)
(*   impl = "Vec"    : Vec<Value> / &[T], dense storage                     *)
(*   impl = "Custom" : a host implementation with its own item_count() and *)
(*                     a get_item() that may answer None inside the range  *)
(* ---------------------------------------------------------------------- *)
VecSeqs == {[impl |-> "Vec", items |-> s, count |-> Len(s)] : s \in SeqsUpTo(Vals, MaxLen)}

CustomSeqs == {[impl |-> "Custom", items |-> s, count |-> c] :
                  s \in [1..MaxLen -> OptVals], c \in 0..MaxLen}

SeqObjects == VecSeqs \cup CustomSeqs

\* <[T]>::get(idx).cloned().map(Into::into)
Vec_get_item(s, idx) == IF idx < Len(s.items) THEN Some(s.items[idx + 1]) ELSE None

\* Vec::len
Vec_item_count(s) == Len(s.items)

\* SeqObject::get_item of the implementation behind the trait object
get_item(s, idx) ==
    IF s.impl = "Vec" THEN Vec_get_item(s, idx)
    ELSE IF idx < Len(s.items) THEN s.items[idx + 1] ELSE None

\* SeqObject::item_count of the implementation behind the trait object
item_count(s) == IF s.impl = "Vec" THEN Vec_item_count(s) ELSE s.count

(* ---------------------------------------------------------------------- *)
(* SeqObjectIter                                                           *)
(* ---------------------------------------------------------------------- *)
\* the two iterator instances that may be alive over the same sequence
Iters == {"i1", "i2"}

\* Range<usize>::next
Range_next(r) ==
    IF r.start < r.end
    THEN [idx |-> Some(r.start), range |-> [r EXCEPT !.start = @ + 1]]
    ELSE [idx |-> None, range |-> r]

\* Range<usize>::next_back
Range_next_back(r) ==
    IF r.start < r.end
    THEN [idx |-> Some(r.end - 1), range |-> [r EXCEPT !.end = @ - 1]]
    ELSE [idx |-> None, range |-> r]

\* Range<usize>::size_hint
Range_size_hint(r) ==
    LET len == IF r.start < r.end THEN r.end - r.start ELSE 0
    IN  <<len, Some(len)>>

\* <dyn SeqObject>::iter; counts the item_count() calls it makes
iter(s) == [range |-> [start |-> 0, end |-> item_count(s)], icCalls |-> 1]

\* the closure |idx| self.seq.get_item(idx).unwrap_or(Value::UNDEFINED)
fill(s, idx) == unwrap_or(get_item(s, idx), UNDEFINED)

\* next() written with and_then: an absent element ends the traversal
SeqObjectIter_next_and_then(it, s) ==
    LET rn == Range_next(it.range)
    IN  [range |-> rn.range,
         ret |-> IF rn.idx = None THEN None ELSE get_item(s, rn.idx[1]),
         read |-> rn.idx,
         icCalls |-> 0]

\* next() that re-reads item_count() and stops at the current count
SeqObjectIter_next_recount(it, s) ==
    LET live == [it.range EXCEPT !.end = IF item_count(s) < @ THEN item_count(s) ELSE @]
        rn == Range_next(live)
    IN  [range |-> [it.range EXCEPT !.start = rn.range.start],
         ret |-> IF rn.idx = None THEN None ELSE Some(fill(s, rn.idx[1])),
         read |-> rn.idx,
         icCalls |-> 1]

\* <SeqObjectIter as Iterator>::next: the new range, the returned
\* Option<Value>, the indices handed to get_item and the item_count() calls
SeqObjectIter_next(it, s) ==
    LET rn == Range_next(it.range)
    IN  [range |-> rn.range,
         ret |-> IF rn.idx = None THEN None ELSE Some(fill(s, rn.idx[1])),
         read |-> rn.idx,
         icCalls |-> 0]

\* next_back() that drives the range from the front
SeqObjectIter_next_back_front(it, s) ==
    LET rn == Range_next(it.range)
    IN  [range |-> rn.range,
         ret |-> IF rn.idx = None THEN None ELSE Some(fill(s, rn.idx[1])),
         read |-> rn.idx,
         icCalls |-> 0]

\* next_back() with a back cursor that does not look at the front cursor
SeqObjectIter_next_back_crossing(it, s) ==
    LET r == it.range
        rn == IF 0 < r.end
              THEN [idx |-> Some(r.end - 1), range |-> [r EXCEPT !.end = @ - 1]]
              ELSE [idx |-> None, range |-> r]
    IN  [range |-> rn.range,
         ret |-> IF rn.idx = None THEN None ELSE Some(fill(s, rn.idx[1])),
         read |-> rn.idx,
         icCalls |-> 0]

\* <SeqObjectIter as DoubleEndedIterator>::next_back
SeqObjectIter_next_back(it, s) ==
    LET rn == Range_next_back(it.range)
    IN  [range |-> rn.range,
         ret |-> IF rn.idx = None THEN None ELSE Some(fill(s, rn.idx[1])),
         read |-> rn.idx,
         icCalls |-> 0]

\* <SeqObjectIter as Iterator>::size_hint
SeqObjectIter_size_hint(it) == Range_size_hint(it.range)

(* ---------------------------------------------------------------------- *)
(* Results, errors and the inputs of call / call_method                    *)
(* ---------------------------------------------------------------------- *)
\* Result<Value, Error>
Ok(v) == [ok |-> TRUE, val |-> v, kind |-> "", msg |-> <<>>]
\* Error::new(kind, message); a message is the sequence of its pieces
Err(kind, msg) == [ok |-> FALSE, val |-> "", kind |-> kind, msg |-> msg]

\* field and method names
Names == {"x", "y"}
\* argument lists
ArgLists == {<<>>, <<"a">>}
\* the opaque execution state handed to call / call_method
States == {"s0", "s1"}

\* format!("object has no method named {}", name)
format_no_method(name) == <<"object has no method named ", name>>

(* ---------------------------------------------------------------------- *)
(* StructObject                                                            *)
(*   getf   : what the implementation's get_field answers for each name    *)
(*   fields : None when fields() is not overridden, else the names the     *)
(*            override yields, in order                                    *)
(*   fcount : None when field_count() is not overridden, else its answer   *)
(* ---------------------------------------------------------------------- *)
StructObjects ==
    {[getf |-> g, fields |-> f, fcount |-> c] :
        g \in [Names -> OptVals],
        f \in {None} \cup {Some(names) : names \in SeqsUpTo(Names, MaxFields)},
        c \in {None} \cup {Some(n) : n \in 0..MaxFields}}

\* StructObject::get_field (required method, answered by the implementation)
get_field(st, name) == st.getf[name]

\* a default fields() built from Some(name) instead of None
StructObject_fields_default_some(st) == <<"x">>

\* the default body of StructObject::fields: Box::new(None.into_iter())
StructObject_fields_default(st) == <<>>

\* StructObject::fields as dispatched on the implementation
fields(st) == IF st.fields = None THEN StructObject_fields_default(st) ELSE st.fields[1]

\* the default body of StructObject::field_count: self.fields().count()
StructObject_field_count_default(st) == Len(fields(st))

\* StructObject::field_count as dispatched on the implementation
field_count(st) ==
    IF st.fcount = None THEN StructObject_field_count_default(st) ELSE st.fcount[1]

(* ---------------------------------------------------------------------- *)
(* ObjectKind                                                              *)
(* ---------------------------------------------------------------------- *)
Plain == [tag |-> "Plain", seq |-> None, strct |-> None]
Seq_(s) == [tag |-> "Seq", seq |-> Some(s), strct |-> None]
Struct_(st) == [tag |-> "Struct", seq |-> None, strct |-> Some(st)]

(* ---------------------------------------------------------------------- *)
(* Implementations T behind a reference or an Arc<T>                       *)
(*   fam  : the trait T is used through (Object, SeqObject, StructObject)  *)
(*   type : for fam Object, "Default" (no method overridden),              *)
(*          "SimpleSeq", "SimpleStruct" or "Host" (a host type overriding  *)
(*          kind, call_method and call; interior state hits)               *)
(* ---------------------------------------------------------------------- *)
Impl(fam, type, sv, st, kindTag, methods, callable) ==
    [fam |-> fam, type |-> type, seqv |-> sv, strv |-> st, kindTag |-> kindTag,
     methods |-> methods, callable |-> callable, hits |-> 0]

\* a host type overriding every Object method
HostObjects ==
    {Impl("Object", "Host", None, None, "Plain", m, c) :
        m \in {{}, {"x"}}, c \in BOOLEAN}
    \cup {Impl("Object", "Host", Some(s), None, "Seq", {"x"}, FALSE) :
            s \in {v \in VecSeqs : Len(v.items) = 1}}
    \cup {Impl("Object", "Host", None, Some(st), "Struct", {}, TRUE) :
            st \in {r \in StructObjects : r.fields = Some(<<"x">>) /\ r.fcount = None
                                          /\ r.getf["y"] = None}}

\* the sequences wrapped into a SimpleSeqObject behind the cell: the ones
\* that repeat one element
WrappedSeqs ==
    {s \in SeqObjects : \A k \in 1..Len(s.items) : s.items[k] = s.items[1]}

\* the records wrapped into a SimpleStructObject behind the cell
WrappedStructs ==
    {st \in StructObjects : st.getf["y"] = None /\ st.fcount \in {None, Some(0)}}

ObjectImpls ==
    {Impl("Object", "Default", None, None, "Plain", {}, FALSE)}
    \cup {Impl("Object", "SimpleSeq", Some(s), None, "Seq", {}, FALSE) : s \in WrappedSeqs}
    \cup {Impl("Object", "SimpleStruct", None, Some(st), "Struct", {}, FALSE) :
            st \in WrappedStructs}
    \cup HostObjects

SeqImpls == {Impl("SeqObject", "Seq", Some(s), None, "Seq", {}, FALSE) : s \in SeqObjects}

StructImpls ==
    {Impl("StructObject", "Struct", None, Some(st), "Struct", {}, FALSE) : st \in StructObjects}

\* the value a host method hands back: it alternates with the interior state
HostValue(o, args) == IF args # <<>> THEN args[1] ELSE IF o.hits % 2 = 0 THEN "a" ELSE "b"

\* the default body of Object::kind
Object_kind(o) == Plain

\* a default call_method whose message leaves the name out
Object_call_method_no_name(o, state, name, args) ==
    [ret |-> Err("UnknownMethod", <<"object has no method named ">>), self |-> o]

\* the default body of Object::call_method
Object_call_method(o, state, name, args) ==
    [ret |-> Err("UnknownMethod", format_no_method(name)), self |-> o]

\* the default body of Object::call
Object_call(o, state, args) ==
    [ret |-> Err("InvalidOperation", <<"tried to call non callable object">>), self |-> o]

\* a SimpleSeqObject that keeps the default kind()
SimpleSeqObject_kind_default(o) == Object_kind(o)

\* <SimpleSeqObject as Object>::kind
SimpleSeqObject_kind(o) == Seq_(o.seqv[1])

\* <SimpleStructObject as Object>::kind
SimpleStructObject_kind(o) == Struct_(o.strv[1])

\* a host override of Object::kind, as in the Point examples
Host_kind(o) ==
    IF o.kindTag = "Seq" THEN Seq_(o.seqv[1])
    ELSE IF o.kindTag = "Struct" THEN Struct_(o.strv[1])
    ELSE Plain

\* a host override of Object::call_method: known methods count the call in
\* the interior state and answer a value, the others fail with its own error
Host_call_method(o, state, name, args) ==
    IF name \in o.methods
    THEN [ret |-> Ok(HostValue(o, args)), self |-> [o EXCEPT !.hits = @ + 1]]
    ELSE [ret |-> Err("InvalidOperation", <<"host: no method ", name>>), self |-> o]

\* a host override of Object::call
Host_call(o, state, args) ==
    IF o.callable
    THEN [ret |-> Ok(HostValue(o, args)), self |-> [o EXCEPT !.hits = @ + 1]]
    ELSE [ret |-> Err("InvalidOperation", <<"host: not callable">>), self |-> o]

\* T::kind
T_kind(o) ==
    CASE o.type = "SimpleSeq" -> SimpleSeqObject_kind(o)
      [] o.type = "SimpleStruct" -> SimpleStructObject_kind(o)
      [] o.type = "Host" -> Host_kind(o)
      [] OTHER -> Object_kind(o)

\* T::call_method
T_call_method(o, state, name, args) ==
    IF o.type = "Host" THEN Host_call_method(o, state, name, args)
    ELSE Object_call_method(o, state, name, args)

\* T::call
T_call(o, state, args) ==
    IF o.type = "Host" THEN Host_call(o, state, args) ELSE Object_call(o, state, args)

\* T::get_item, T::item_count for T: SeqObject
T_get_item(o, idx) == get_item(o.seqv[1], idx)
T_item_count(o) == item_count(o.seqv[1])

\* T::get_field, T::fields, T::field_count for T: StructObject
T_get_field(o, name) == get_field(o.strv[1], name)
T_fields(o) == fields(o.strv[1])
T_field_count(o) == field_count(o.strv[1])

(* ---------------------------------------------------------------------- *)
(* Arc<T>: a handle is the address of the shared cell; hp is the heap      *)
(* ---------------------------------------------------------------------- *)
Addr == {"p"}
Arc(p) == [ptr |-> p]
\* <Arc<T> as Deref>::deref
Deref(arc, hp) == hp[arc.ptr]

\* impl Object for Arc<T>
Arc_kind(arc, hp) == T_kind(Deref(arc, hp))

Arc_call_method(arc, hp, state, name, args) ==
    LET r == T_call_method(Deref(arc, hp), state, name, args)
    IN  [ret |-> r.ret, heap |-> [hp EXCEPT ![arc.ptr] = r.self]]

Arc_call(arc, hp, state, args) ==
    LET r == T_call(Deref(arc, hp), state, args)
    IN  [ret |-> r.ret, heap |-> [hp EXCEPT ![arc.ptr] = r.self]]

\* impl SeqObject for Arc<T>
Arc_get_item(arc, hp, idx) == T_get_item(Deref(arc, hp), idx)
Arc_item_count(arc, hp) == T_item_count(Deref(arc, hp))

\* impl StructObject for Arc<T>
Arc_get_field(arc, hp, name) == T_get_field(Deref(arc, hp), name)
Arc_fields(arc, hp) == T_fields(Deref(arc, hp))

\* an Arc impl without its own field_count: the trait default counts fields()
Arc_field_count_not_forwarded(arc, hp) == Len(Arc_fields(arc, hp))

Arc_field_count(arc, hp) == T_field_count(Deref(arc, hp))

(* ---------------------------------------------------------------------- *)
(* State                                                                   *)
(* ---------------------------------------------------------------------- *)
VARIABLES
    seq,      \* the SeqObject the iterators borrow
    iters,    \* Iters -> the SeqObjectIter struct (live flag and range)
    hist,     \* Iters -> what a caller of the iterator has observed
    heap,     \* Addr -> the implementation T stored in the shared cell
    res,      \* Threads -> the latest operation of the thread and its result
    out       \* the renderings produced by Display::fmt and Debug::fmt

vars == <<seq, iters, hist, heap, res, out>>

\* the threads that hold a reference to, or a clone of the Arc of, the cell
Threads == {"t1", "t2"}

IdleSeq == [impl |-> "Vec", items |-> <<>>, count |-> 0]
IdleHeap == [p \in Addr |-> Impl("Object", "Default", None, None, "Plain", {}, FALSE)]
NoRes == [op |-> "none", via |-> "", args |-> <<>>, ret |-> <<>>, want |-> <<>>,
          self |-> <<>>, wantSelf |-> <<>>]
NoOut == [display |-> None, debug |-> None]

NoIter == [live |-> FALSE, range |-> [start |-> 0, end |-> 0]]

\* yielded: the values returned as Some, in order; read: the indices handed
\* to get_item, in order, each with the call that read it and with what
\* get_item answered for it at that moment; calls: which of next/next_back were invoked;
\* last: whether the latest call returned Some or None; n0: item_count() at
\* the time of iter(); icCalls: item_count() calls made for this iterator
NoHist == [yielded |-> <<>>, read |-> <<>>, calls |-> {}, last |-> "unset",
           n0 |-> 0, icCalls |-> 0]

InitIters ==
    /\ iters = [i \in Iters |-> NoIter]
    /\ hist = [i \in Iters |-> NoHist]

InitObjs ==
    /\ heap = IdleHeap
    /\ res = [t \in Threads |-> NoRes]

InitOut == out = NoOut

\* a traversal request: (&seq as &dyn SeqObject).iter()
IterCall(i) ==
    /\ ~iters[i].live
    /\ LET r == iter(seq)
       IN  /\ iters' = [iters EXCEPT ![i] = [live |-> TRUE, range |-> r.range]]
           /\ hist' = [hist EXCEPT ![i] = [NoHist EXCEPT !.n0 = item_count(seq),
                                                          !.icCalls = r.icCalls]]
    /\ UNCHANGED <<seq, heap, res, out>>

Observe(h, r, op, s) ==
    [h EXCEPT !.yielded = @ \o r.ret,
              !.read = @ \o [k \in 1..Len(r.read) |->
                                [op |-> op, idx |-> r.read[k], got |-> get_item(s, r.read[k])]],
              !.calls = @ \cup {op},
              !.last = IF r.ret = None THEN "none" ELSE "some",
              !.icCalls = @ + r.icCalls]

\* it.next()
NextCall(i) ==
    /\ iters[i].live
    /\ LET r == SeqObjectIter_next(iters[i], seq)
       IN  /\ iters' = [iters EXCEPT ![i].range = r.range]
           /\ hist' = [hist EXCEPT ![i] = Observe(@, r, "next", seq)]
    /\ UNCHANGED <<seq, heap, res, out>>

\* it.next_back()
NextBackCall(i) ==
    /\ iters[i].live
    /\ LET r == SeqObjectIter_next_back(iters[i], seq)
       IN  /\ iters' = [iters EXCEPT ![i].range = r.range]
           /\ hist' = [hist EXCEPT ![i] = Observe(@, r, "next_back", seq)]
    /\ UNCHANGED <<seq, heap, res, out>>

(* ---------------------------------------------------------------------- *)
(* Spec: iterators over a sequence that does not change                    *)
(* ---------------------------------------------------------------------- *)
Init ==
    /\ seq \in SeqObjects
    /\ InitIters
    /\ InitObjs
    /\ InitOut

Next ==
    \E i \in Iters : IterCall(i) \/ NextCall(i) \/ NextBackCall(i)

Spec == Init /\ [][Next]_vars

(* ---------------------------------------------------------------------- *)
(* Properties of the iterator over an unchanged sequence                   *)
(* ---------------------------------------------------------------------- *)
\* the value a consumer expects at index idx: the element, or Undefined
ExpectedAt(s, idx) ==
    IF get_item(s, idx) = None THEN UNDEFINED ELSE get_item(s, idx)[1]

ExpectedAll(s) == [k \in 1..item_count(s) |-> ExpectedAt(s, k - 1)]

Exhausted(i) == iters[i].live /\ hist[i].last = "none"

\* C1: an iterator driven by next() alone yields get_item(0), get_item(1),
\* ... in order, Undefined where get_item is absent, and when next() returns
\* none it has yielded exactly item_count() values.
C1_ForwardYieldsCount ==
    \A i \in Iters :
        (iters[i].live /\ hist[i].calls \subseteq {"next"}) =>
            LET y == hist[i].yielded
            IN  /\ Len(y) <= item_count(seq)
                /\ \A k \in 1..Len(y) : y[k] = ExpectedAt(seq, k - 1)
                /\ (hist[i].last = "none" => y = ExpectedAll(seq))

\* a forward traversal that ran to the end over a sequence whose first
\* element is absent and whose last element is present
C1_Witness ==
    \E i \in Iters :
        /\ Exhausted(i) /\ hist[i].calls = {"next"}
        /\ item_count(seq) = MaxLen
        /\ get_item(seq, 0) = None
        /\ get_item(seq, MaxLen - 1) # None
        /\ Len(hist[i].yielded) = MaxLen
        /\ hist[i].yielded[1] = UNDEFINED

\* C2: a traversal by next_back() alone, run to exhaustion, yields the
\* reverse of what a traversal by next() alone yields over the same sequence.
C2_BackwardIsReverse ==
    \A i, j \in Iters :
        (/\ Exhausted(i) /\ hist[i].calls = {"next"}
         /\ Exhausted(j) /\ hist[j].calls = {"next_back"})
            => hist[j].yielded = Reverse(hist[i].yielded)

\* both traversals finished over a sequence that is not a palindrome and
\* has an Undefined fill value
C2_Witness ==
    \E i, j \in Iters :
        /\ Exhausted(i) /\ hist[i].calls = {"next"}
        /\ Exhausted(j) /\ hist[j].calls = {"next_back"}
        /\ Len(hist[i].yielded) = MaxLen
        /\ hist[i].yielded # Reverse(hist[i].yielded)
        /\ \E k \in 1..MaxLen : hist[i].yielded[k] = UNDEFINED

\* the indices read by the calls named op, in the order they were read
RECURSIVE ReadsOf(_, _)
ReadsOf(rd, op) ==
    IF rd = <<>> THEN <<>>
    ELSE (IF Head(rd).op = op THEN <<Head(rd).idx>> ELSE <<>>) \o ReadsOf(Tail(rd), op)

MutIters == {"i1"}
MutOpts == {None, Some("a")}
MutSeqs == {s \in CustomSeqs : \A k \in 1..MaxLen : s.items[k] \in MutOpts}

\* the host object stores or clears the element at idx
SetItem(idx, opt) ==
    /\ seq.impl = "Custom"
    /\ seq.items[idx + 1] # opt
    /\ seq' = [seq EXCEPT !.items[idx + 1] = opt]
    /\ UNCHANGED <<iters, hist, heap, res, out>>

\* the host object grows or shrinks: item_count() answers c from now on
SetCount(c) ==
    /\ seq.impl = "Custom"
    /\ seq.count # c
    /\ seq' = [seq EXCEPT !.count = c]
    /\ UNCHANGED <<iters, hist, heap, res, out>>

InitMut ==
    /\ seq \in MutSeqs
    /\ InitIters
    /\ InitObjs
    /\ InitOut

NextMut ==
    \/ \E i \in MutIters : IterCall(i) \/ NextCall(i) \/ NextBackCall(i)
    \/ \E idx \in 0..(MaxLen - 1), opt \in MutOpts : SetItem(idx, opt)
    \/ \E c \in 0..MaxLen : SetCount(c)

SpecMut == InitMut /\ [][NextMut]_vars

Vias == {"ref", "arc"}

\* the thread's record of a call: got is what the call produced, want what
\* the same method of T produces in the same state
Record(t, op, via, args, got, want) ==
    /\ heap' = got.heap
    /\ res' = [res EXCEPT ![t] = [op |-> op, via |-> via, args |-> args,
                                  ret |-> got.ret, want |-> want.ret,
                                  self |-> got.heap["p"], wantSelf |-> want.self]]
    /\ UNCHANGED <<seq, iters, hist, out>>

\* a method that takes &self and leaves T as it is
Pure(ret) == [ret |-> ret, heap |-> heap, self |-> heap["p"]]
\* the effect of a method called on &T on the cell
OnCell(r) == [ret |-> r.ret, heap |-> [heap EXCEPT !["p"] = r.self]]

KindOp(t, via) ==
    /\ heap["p"].fam = "Object"
    /\ Record(t, "kind", via, <<>>,
              IF via = "arc" THEN Pure(Arc_kind(Arc("p"), heap)) ELSE Pure(T_kind(heap["p"])),
              Pure(T_kind(heap["p"])))

CallMethodOp(t, via, state, name, args) ==
    /\ heap["p"].fam = "Object"
    /\ heap["p"].hits < MaxHits
    /\ LET direct == T_call_method(heap["p"], state, name, args)
       IN  Record(t, "call_method", via, <<state, name, args>>,
                  IF via = "arc" THEN Arc_call_method(Arc("p"), heap, state, name, args)
                  ELSE OnCell(direct),
                  direct)

CallOp(t, via, state, args) ==
    /\ heap["p"].fam = "Object"
    /\ heap["p"].hits < MaxHits
    /\ LET direct == T_call(heap["p"], state, args)
       IN  Record(t, "call", via, <<state, args>>,
                  IF via = "arc" THEN Arc_call(Arc("p"), heap, state, args)
                  ELSE OnCell(direct),
                  direct)

GetItemOp(t, via, idx) ==
    /\ heap["p"].fam = "SeqObject"
    /\ Record(t, "get_item", via, <<idx>>,
              IF via = "arc" THEN Pure(Arc_get_item(Arc("p"), heap, idx))
              ELSE Pure(T_get_item(heap["p"], idx)),
              Pure(T_get_item(heap["p"], idx)))

ItemCountOp(t, via) ==
    /\ heap["p"].fam = "SeqObject"
    /\ Record(t, "item_count", via, <<>>,
              IF via = "arc" THEN Pure(Arc_item_count(Arc("p"), heap))
              ELSE Pure(T_item_count(heap["p"])),
              Pure(T_item_count(heap["p"])))

GetFieldOp(t, via, name) ==
    /\ heap["p"].fam = "StructObject"
    /\ Record(t, "get_field", via, <<name>>,
              IF via = "arc" THEN Pure(Arc_get_field(Arc("p"), heap, name))
              ELSE Pure(T_get_field(heap["p"], name)),
              Pure(T_get_field(heap["p"], name)))

FieldsOp(t, via) ==
    /\ heap["p"].fam = "StructObject"
    /\ Record(t, "fields", via, <<>>,
              IF via = "arc" THEN Pure(Arc_fields(Arc("p"), heap))
              ELSE Pure(T_fields(heap["p"])),
              Pure(T_fields(heap["p"])))

FieldCountOp(t, via) ==
    /\ heap["p"].fam = "StructObject"
    /\ Record(t, "field_count", via, <<>>,
              IF via = "arc" THEN Pure(Arc_field_count(Arc("p"), heap))
              ELSE Pure(T_field_count(heap["p"])),
              Pure(T_field_count(heap["p"])))

InitObj ==
    /\ heap \in [Addr -> ObjectImpls \cup SeqImpls \cup StructImpls]
    /\ res = [t \in Threads |-> NoRes]
    /\ seq = IdleSeq
    /\ InitIters
    /\ InitOut

NextObj ==
    \E t \in Threads, via \in Vias :
        \/ KindOp(t, via)
        \/ \E state \in States, name \in Names, args \in ArgLists :
              CallMethodOp(t, via, state, name, args)
        \/ \E state \in States, args \in ArgLists : CallOp(t, via, state, args)
        \/ \E idx \in 0..MaxLen : GetItemOp(t, via, idx)
        \/ ItemCountOp(t, via)
        \/ \E name \in Names : GetFieldOp(t, via, name)
        \/ FieldsOp(t, via)
        \/ FieldCountOp(t, via)

SpecObj == InitObj /\ [][NextObj]_vars

(* ---------------------------------------------------------------------- *)
(* Properties of the defaults, of kind() and of the Arc<T> impls           *)
(* ---------------------------------------------------------------------- *)
\* the message has name as one of its pieces
Embeds(msg, name) == \E k \in 1..Len(msg) : msg[k] = name

\* C3: on an Object that does not override call_method / call, every
\* call_method fails with UnknownMethod and a message that embeds the method
\* name, and every call fails with InvalidOperation, whatever the state, the
\* name and the arguments; neither returns a value.
C3_DefaultsFail ==
    \A t \in Threads :
        heap["p"].type \in {"Default", "SimpleSeq", "SimpleStruct"} =>
            /\ res[t].op = "call_method" =>
                    /\ ~res[t].ret.ok
                    /\ res[t].ret.kind = "UnknownMethod"
                    /\ Embeds(res[t].ret.msg, res[t].args[2])
            /\ res[t].op = "call" =>
                    /\ ~res[t].ret.ok
                    /\ res[t].ret.kind = "InvalidOperation"

\* a default Object after one thread called method "y" with an argument and
\* the other thread called the object itself
C3_Witness ==
    /\ heap["p"].type = "Default"
    /\ res["t1"].op = "call_method" /\ res["t1"].args = <<"s1", "y", <<"a">>>>
    /\ res["t1"].ret.kind = "UnknownMethod"
    /\ res["t2"].op = "call" /\ res["t2"].args = <<"s0", <<>>>>
    /\ res["t2"].ret.kind = "InvalidOperation"

\* C4 as stated: without overridden fields() / field_count(), field_count()
\* is 0, fields() yields nothing and get_field is absent for every name.
C4_Original ==
    \A t \in Threads :
        (/\ heap["p"].fam = "StructObject"
         /\ heap["p"].strv[1].fields = None
         /\ heap["p"].strv[1].fcount = None) =>
            /\ res[t].op = "field_count" => res[t].ret = 0
            /\ res[t].op = "fields" => res[t].ret = <<>>
            /\ res[t].op = "get_field" => res[t].ret = None

\* C4: without overridden fields() / field_count(), field_count() is 0 and
\* fields() yields nothing; get_field has no default and answers what the
\* implementation answers for the name, present or absent.
C4_DefaultFieldsEmpty ==
    \A t \in Threads :
        (/\ heap["p"].fam = "StructObject"
         /\ heap["p"].strv[1].fields = None
         /\ heap["p"].strv[1].fcount = None) =>
            /\ res[t].op = "field_count" => res[t].ret = 0
            /\ res[t].op = "fields" => res[t].ret = <<>>
            /\ res[t].op = "get_field" =>
                    res[t].ret = heap["p"].strv[1].getf[res[t].args[1]]

\* a record without the two overrides whose get_field knows "x": one thread
\* counted its fields, the other enumerated them
C4_Witness ==
    /\ heap["p"].fam = "StructObject"
    /\ heap["p"].strv[1].fields = None
    /\ heap["p"].strv[1].fcount = None
    /\ heap["p"].strv[1].getf["x"] # None
    /\ res["t1"].op = "field_count" /\ res["t1"].ret = 0
    /\ res["t2"].op = "fields" /\ res["t2"].ret = <<>>

\* C5: every operation invoked on a clone of the Arc returns what the same
\* operation of T returns in the same state, errors included, and leaves T
\* in the state the direct call leaves it in, whichever thread calls and
\* however the calls interleave.
C5_ArcForwards ==
    \A t \in Threads :
        res[t].via = "arc" =>
            /\ res[t].ret = res[t].want
            /\ res[t].self = res[t].wantSelf

\* two clones in use: one thread asked field_count() of a record whose
\* overridden count differs from the number of names fields() yields, the
\* other enumerated the fields
C5_Witness ==
    /\ heap["p"].fam = "StructObject"
    /\ heap["p"].strv[1].fcount # None
    /\ field_count(heap["p"].strv[1]) # Len(fields(heap["p"].strv[1]))
    /\ res["t1"].via = "arc" /\ res["t1"].op = "field_count"
    /\ res["t1"].ret = heap["p"].strv[1].fcount[1]
    /\ res["t2"].via = "arc" /\ res["t2"].op = "fields"

DebugValue(v) == IF v = UNDEFINED THEN "Undefined" ELSE "'" \o v \o "'"
\* {:?} of a &str
DebugStr(name) == "\"" \o name \o "\""

\* the values (&self.0 as &dyn SeqObject).iter() yields until next() is none
RECURSIVE Drain(_, _)
Drain(it, s) ==
    LET r == SeqObjectIter_next(it, s)
    IN  IF r.ret = None THEN <<>>
        ELSE <<r.ret[1]>> \o Drain([it EXCEPT !.range = r.range], s)

\* the body of the for loop of <SimpleSeqObject as Display>::fmt from the
\* enumerate() position idx on
RECURSIVE SeqDisplayLoop(_, _)
SeqDisplayLoop(vals, idx) ==
    IF idx >= Len(vals) THEN <<>>
    ELSE (IF idx > 0 THEN <<", ">> ELSE <<>>)
         \o <<DebugValue(vals[idx + 1])>>
         \o SeqDisplayLoop(vals, idx + 1)

\* a Display::fmt that writes the separator after every element
SimpleSeqObject_Display_fmt_trailing(o) ==
    LET vals == Drain(iter(o.seqv[1]), o.seqv[1])
        cells == [k \in 1..Len(vals) |-> <<DebugValue(vals[k]), ", ">>]
        RECURSIVE Flat(_)
        Flat(c) == IF c = <<>> THEN <<>> ELSE Head(c) \o Flat(Tail(c))
    IN  <<"[">> \o Flat(cells) \o <<"]">>

\* <SimpleSeqObject as Display>::fmt
SimpleSeqObject_Display_fmt(o) ==
    <<"[">> \o SeqDisplayLoop(Drain(iter(o.seqv[1]), o.seqv[1]), 0) \o <<"]">>

\* DebugList / DebugMap in the compact ({:?}) form: every entry after the
\* first is preceded by ", "
RECURSIVE DebugInner_entries(_, _)
DebugInner_entries(cells, has_fields) ==
    IF cells = <<>> THEN <<>>
    ELSE (IF has_fields THEN <<", ">> ELSE <<>>)
         \o Head(cells)
         \o DebugInner_entries(Tail(cells), TRUE)

\* <SimpleSeqObject as Debug>::fmt: f.debug_list().entries(iter).finish()
SimpleSeqObject_Debug_fmt(o) ==
    LET vals == Drain(iter(o.seqv[1]), o.seqv[1])
    IN  <<"[">>
        \o DebugInner_entries([k \in 1..Len(vals) |-> <<DebugValue(vals[k])>>], FALSE)
        \o <<"]">>

\* the body of the for loop of <SimpleStructObject as Display>::fmt
RECURSIVE StructDisplayLoop(_, _, _)
StructDisplayLoop(st, names, idx) ==
    IF idx >= Len(names) THEN <<>>
    ELSE LET field == names[idx + 1]
             val == unwrap_or(get_field(st, field), UNDEFINED)
         IN  (IF idx > 0 THEN <<", ">> ELSE <<>>)
             \o <<DebugStr(field), ": ", DebugValue(val)>>
             \o StructDisplayLoop(st, names, idx + 1)

\* a Display::fmt that leaves out the fields get_field does not answer
SimpleStructObject_Display_fmt_skip(o) ==
    LET st == o.strv[1]
        present == SelectSeq(fields(st), LAMBDA n : get_field(st, n) # None)
    IN  <<"[">> \o StructDisplayLoop(st, present, 0) \o <<"]">>

\* <SimpleStructObject as Display>::fmt
SimpleStructObject_Display_fmt(o) ==
    <<"[">> \o StructDisplayLoop(o.strv[1], fields(o.strv[1]), 0) \o <<"]">>

\* <SimpleStructObject as Debug>::fmt: debug_map(), one entry per field
SimpleStructObject_Debug_fmt(o) ==
    LET st == o.strv[1]
        names == fields(st)
        entry(field) == <<DebugStr(field), ": ",
                          DebugValue(unwrap_or(get_field(st, field), UNDEFINED))>>
    IN  <<"{">>
        \o DebugInner_entries([k \in 1..Len(names) |-> entry(names[k])], FALSE)
        \o <<"}">>

\* to_string() / format!("{}", obj)
DisplayFmt ==
    /\ out' = [out EXCEPT !.display =
                  Some(IF heap["p"].type = "SimpleSeq"
                       THEN SimpleSeqObject_Display_fmt(heap["p"])
                       ELSE SimpleStructObject_Display_fmt(heap["p"]))]
    /\ UNCHANGED <<seq, iters, hist, heap, res>>

\* format!("{:?}", obj)
DebugFmt ==
    /\ out' = [out EXCEPT !.debug =
                  Some(IF heap["p"].type = "SimpleSeq"
                       THEN SimpleSeqObject_Debug_fmt(heap["p"])
                       ELSE SimpleStructObject_Debug_fmt(heap["p"]))]
    /\ UNCHANGED <<seq, iters, hist, heap, res>>

InitFmt ==
    /\ heap \in [Addr ->
            {Impl("Object", "SimpleSeq", Some(s), None, "Seq", {}, FALSE) : s \in SeqObjects}
            \cup {Impl("Object", "SimpleStruct", None, Some(st), "Struct", {}, FALSE) :
                    st \in StructObjects}]
    /\ res = [t \in Threads |-> NoRes]
    /\ seq = IdleSeq
    /\ InitIters
    /\ InitOut

NextFmt == DisplayFmt \/ DebugFmt

SpecFmt == InitFmt /\ [][NextFmt]_vars

\* the cells, with ", " between consecutive cells only, inside the brackets
RECURSIVE Joined(_)
Joined(cells) ==
    IF Len(cells) = 0 THEN <<>>
    ELSE IF Len(cells) = 1 THEN cells[1]
    ELSE Joined(SubSeq(cells, 1, Len(cells) - 1)) \o <<", ">> \o cells[Len(cells)]

Layout(open, cells, close) == <<open>> \o Joined(cells) \o <<close>>

\* one name: value cell per name fields() yields, in that order
PairCells(st) ==
    [k \in 1..Len(fields(st)) |->
        <<DebugStr(fields(st)[k]), ": ",
          IF get_field(st, fields(st)[k]) = None THEN DebugValue(UNDEFINED)
          ELSE DebugValue(get_field(st, fields(st)[k])[1])>>]

\* one cell per index of 0..item_count()-1, in index order
ItemCells(s) == [k \in 1..item_count(s) |-> <<DebugValue(ExpectedAt(s, k - 1))>>]

Mentions(tokens, tok) == \E k \in 1..Len(tokens) : tokens[k] = tok

\* C6: both renderings of a SimpleStructObject hold one name: value entry
\* per name the inner fields() yields, in the order it yields them, the value
\* being get_field(name) or Undefined when that is absent, with ", " between
\* consecutive entries; the stringification brackets them with [ ], the
\* debug form with { }; a name fields() does not yield appears in neither.
C6_StructRenderings ==
    heap["p"].type = "SimpleStruct" =>
        LET st == heap["p"].strv[1]
            listed == {fields(st)[k] : k \in 1..Len(fields(st))}
        IN  /\ out.display # None =>
                    /\ out.display[1] = Layout("[", PairCells(st), "]")
                    /\ \A n \in Names \ listed : ~Mentions(out.display[1], DebugStr(n))
            /\ out.debug # None =>
                    /\ out.debug[1] = Layout("{", PairCells(st), "}")
                    /\ \A n \in Names \ listed : ~Mentions(out.debug[1], DebugStr(n))

\* both renderings of a record that enumerates "y" then "x", answers "x",
\* does not answer "y"
C6_Witness ==
    /\ heap["p"].type = "SimpleStruct"
    /\ fields(heap["p"].strv[1]) = <<"y", "x">>
    /\ get_field(heap["p"].strv[1], "y") = None
    /\ get_field(heap["p"].strv[1], "x") = Some("a")
    /\ out.display = Some(<<"[", DebugStr("y"), ": ", "Undefined", ", ",
                            DebugStr("x"), ": ", DebugValue("a"), "]">>)
    /\ out.debug # None

\* C7: both renderings of a SimpleSeqObject are [ ], holding one
\* debug-formatted element per index of 0..item_count()-1 in index order,
\* Undefined where get_item is absent, with ", " between consecutive
\* elements only; an empty sequence renders as the two brackets.
C7_SeqRenderings ==
    heap["p"].type = "SimpleSeq" =>
        LET s == heap["p"].seqv[1]
        IN  /\ out.display # None =>
                    /\ out.display[1] = Layout("[", ItemCells(s), "]")
                    /\ item_count(s) = 0 => out.display[1] = <<"[", "]">>
            /\ out.debug # None =>
                    /\ out.debug[1] = Layout("[", ItemCells(s), "]")
                    /\ item_count(s) = 0 => out.debug[1] = <<"[", "]">>

\* both renderings of a sequence of MaxLen items whose first item is absent
C7_Witness ==
    /\ heap["p"].type = "SimpleSeq"
    /\ item_count(heap["p"].seqv[1]) = MaxLen
    /\ get_item(heap["p"].seqv[1], 0) = None
    /\ get_item(heap["p"].seqv[1], 1) = Some("b")
    /\ out.display # None /\ out.debug # None
    /\ Len(out.display[1]) = 2 * MaxLen + 1
    /\ SubSeq(out.display[1], 1, 4) = <<"[", "Undefined", ", ", DebugValue("b")>>

====
